---- MODULE Spec2Model ----
(***************************************************************************)
(* Model of src/binding.cpp: the node binding that bridges the blocking    *)
(* stylesheet compiler to asynchronous (uv_queue_work) and synchronous     *)
(* entry points.  One request = one call of an entry point.  The heap is   *)
(* modelled per request as a map from buffer name to its allocation and    *)
(* release counts; the fields of the context are pointers (buffer names).  *)
(***************************************************************************)
EXTENDS Integers, Sequences, FiniteSets, TLC

\* ---------------------------------------------------------------- bounds
NReq == 2
NWorkers == 2

Reqs == 1..NReq
Workers == 1..NWorkers

\* the origin execution context (the default loop's thread), and the thread of
\* pool worker w: a trace records on which kind of thread a step ran
Origin == "origin"
PoolThread(w) == "pool"

\* ------------------------------------------------------------ inputs
\* request i compiles its own literal, "a{color:i}", or the malformed "a{", and
\* names its own include path
GoodSource(i) == "a{color:" \o ToString(i) \o "}"
GoodSources == {GoodSource(i) : i \in Reqs}
BadSources == {"a{"}
IncludePath(i) == "lib" \o ToString(i)
MapPaths == {"out.map"}
UvStatus == {0, -1}
Garbage == "garbage"

MkArgs(src, inc, style, comments, map) ==
    [src |-> src, inc |-> inc, style |-> style, comments |-> comments, map |-> map]

\* the arguments request i is called with: inline-source entry points
InlineArgs(i) ==
    {MkArgs(src, IncludePath(i), 0, 0, "") : src \in {GoodSource(i)} \cup BadSources}

\* the arguments request i is called with: file entry points (mode None or Map)
FileArgs(i) ==
    {MkArgs(src, IncludePath(i), 0, c, map) :
        src \in {GoodSource(i)} \cup BadSources, c \in {0, 2}, map \in MapPaths}

\* enum value of the engine's header, compared at binding.cpp:195 and :244
SASS_SOURCE_COMMENTS_MAP == 2

\* ------------------------------------------------------------ host values
Null == [t |-> "null"]
Undefined == [t |-> "undefined"]
StringNew(x) == [t |-> "string", v |-> x]

\* args[i]->Int32Value(): the number as a signed 32-bit integer.  The integers
\* of this model all lie in that range, so no value is changed, and none is
\* rejected: whatever integer the caller passes is what lands in the options.
Int32Value(n) == n

\* ------------------------------------------------------------ the heap
CallerBufs == {"astr", "bstr", "cstr"}
OwnedBufs == {"input", "incbuf", "imgbuf", "mapbuf", "cb", "ecb", "ctx", "ctxw"}
Bufs == CallerBufs \cup OwnedBufs
NULL == "NULL"

NoBuf == [alloc |-> 0, rel |-> 0, dtor |-> 0, val |-> ""]
EmptyHeap == [b \in Bufs |-> NoBuf]

\* new T / new char[n] / String::AsciiValue x(arg): buffer b comes to life holding v
New(m, b, v) == [m EXCEPT ![b] = [alloc |-> 1, rel |-> 0, dtor |-> 0, val |-> v]]

\* delete p (the binding's code releases what p points to; delete NULL does nothing)
Delete(m, p) == IF p = NULL THEN m ELSE [m EXCEPT ![p].rel = @ + 1]

\* ~AsciiValue at the end of the entry point's scope releases the value's buffer
Destruct(m, b) == IF m[b].alloc = 0 THEN m ELSE [m EXCEPT ![b].dtor = @ + 1]

Live(m, p) == p # NULL /\ m[p].alloc = 1 /\ m[p].rel = 0 /\ m[p].dtor = 0
Frees(m, b) == m[b].rel + m[b].dtor

\* ------------------------------------------------------------ the engine
\* sass_compile / sass_compile_file: a function of what it reads from the context
Compile(isFile, src, inc, style, comments, mapfile) ==
    IF src \in GoodSources
    THEN [error_status |-> 0,
          output_string |-> [k |-> "css", src |-> src, inc |-> inc,
                             style |-> style, comments |-> comments],
          source_map_string |->
              IF isFile /\ comments = SASS_SOURCE_COMMENTS_MAP /\ mapfile # NULL
              THEN [k |-> "map", src |-> src, file |-> mapfile]
              ELSE [k |-> "none"],
          error_message |-> [k |-> "none"]]
    ELSE [error_status |-> 1,
          output_string |-> [k |-> "none"],
          source_map_string |-> [k |-> "none"],
          error_message |-> [k |-> "error", src |-> src]]

VARIABLES proc, pc, args, ctx, mem, queue, worker, done, origin, calls, trace, ret

vars == <<proc, pc, args, ctx, mem, queue, worker, done, origin, calls, trace, ret>>

NoArgs == MkArgs("", "", 0, 0, "")

\* sass_new_context / sass_new_file_context: a zeroed context
NewContext(kind) ==
    [kind |-> kind, input |-> NULL, include_paths |-> NULL, image_path |-> NULL,
     source_map_file |-> NULL, output_style |-> 0, source_comments |-> 0,
     error_status |-> 0,
     output_string |-> [k |-> "none"], source_map_string |-> [k |-> "none"],
     error_message |-> [k |-> "none"],
     callback |-> NULL, errorCallback |-> NULL,
     work_cb |-> "none", after_work_cb |-> "none", status |-> 0]

NoRet == [returned |-> FALSE, value |-> Undefined, thrown |-> FALSE, error |-> Undefined]

Ev(e, th) == [ev |-> e, th |-> th]

\* what the origin thread is executing: nothing, the tail of an asynchronous entry
\* point (after uv_queue_work, before its return), or a dispatcher whose callback
\* has been called and has not come back yet
OriginIdle == [op |-> "idle", r |-> 0]
InEntry(r) == [op |-> "entry", r |-> r]
InDispatch(r) == [op |-> "dispatch", r |-> r]

Init ==
    /\ proc = "running"
    /\ pc = [r \in Reqs |-> "idle"]
    /\ args = [r \in Reqs |-> NoArgs]
    /\ ctx = [r \in Reqs |-> NewContext("none")]
    /\ mem = [r \in Reqs |-> EmptyHeap]
    /\ queue = <<>>
    /\ worker = [w \in Workers |-> 0]
    /\ done = <<>>
    /\ origin = OriginIdle
    /\ calls = [r \in Reqs |-> <<>>]
    /\ trace = [r \in Reqs |-> <<>>]
    /\ ret = [r \in Reqs |-> NoRet]

Submitted(r) == pc[r] # "idle"

\* requests are numbered in the order the entry points are called
MayCall(r) ==
    /\ proc = "running"
    /\ origin = OriginIdle
    /\ pc[r] = "idle"
    /\ r > 1 => Submitted(r - 1)

\* what a read through pointer p can yield in heap m: the buffer's content while
\* it is live; once the buffer has been released the read is undefined: the old
\* bytes if the block was not reused yet, otherwise whatever now lies there
\* (the bytes of another request included)
Deref(m, p) ==
    IF p = NULL THEN {NULL}
    ELSE IF Live(m, p) THEN {m[p].val}
    ELSE {m[p].val, Garbage}

\* ------------------------------------------------------------ async entry points
\* uv_queue_work(uv_default_loop(), &ctx_w->request, work_cb, after_work_cb);
\* assert(status == 0);  -- the tail of every async entry point.  From the moment
\* the work is queued a pool thread may take it, while the entry point has still
\* to return (EntryReturn).
QueueWork(r, a, c, m, status) ==
    /\ args' = [args EXCEPT ![r] = a]
    /\ ctx' = [ctx EXCEPT ![r] = [c EXCEPT !.status = status]]
    /\ UNCHANGED <<worker, done, calls>>
    /\ IF status = 0
       THEN /\ queue' = Append(queue, r)
            /\ pc' = [pc EXCEPT ![r] = "queued"]
            /\ proc' = proc
            /\ origin' = InEntry(r)
            /\ mem' = [mem EXCEPT ![r] = m]
            /\ ret' = ret
            /\ trace' = [trace EXCEPT ![r] = <<Ev("create", Origin), Ev("queue", Origin)>>]
       ELSE \* the assertion fails: abort(), or nothing at all when NDEBUG is defined
            \/ /\ queue' = queue
               /\ pc' = [pc EXCEPT ![r] = "aborted"]
               /\ proc' = "aborted"
               /\ origin' = origin
               /\ mem' = [mem EXCEPT ![r] = m]
               /\ ret' = ret
               /\ trace' = [trace EXCEPT ![r] = <<Ev("create", Origin), Ev("abort", Origin)>>]
            \/ /\ queue' = queue
               /\ pc' = [pc EXCEPT ![r] = "dropped"]
               /\ proc' = proc
               /\ origin' = origin
               /\ mem' = [mem EXCEPT ![r] = Destruct(Destruct(Destruct(m, "cstr"), "bstr"), "astr")]
               /\ ret' = [ret EXCEPT ![r] = [NoRet EXCEPT !.returned = TRUE]]
               /\ trace' = [trace EXCEPT ![r] = <<Ev("create", Origin), Ev("return", Origin)>>]

\* NanReturnUndefined() and the end of the entry point's scope (lines 74-75,
\* 134-135, 256-257): the AsciiValue locals are destroyed, the caller gets undefined
EntryReturn(r) ==
    /\ proc = "running"
    /\ origin = InEntry(r)
    /\ origin' = OriginIdle
    /\ mem' = [mem EXCEPT ![r] = Destruct(Destruct(Destruct(@, "cstr"), "bstr"), "astr")]
    /\ ret' = [ret EXCEPT ![r] = [NoRet EXCEPT !.returned = TRUE]]
    /\ UNCHANGED <<proc, pc, args, ctx, queue, worker, done, calls, trace>>

\* the context as OldRender leaves it at line 69
OldRenderContext(a) ==
    [NewContext("oldRender") EXCEPT
        !.input = "input",                              \* 58-60
        !.include_paths = "bstr",                       \* 61, overwritten at 63
        !.image_path = "imgbuf",                        \* 62
        !.output_style = Int32Value(a.style),           \* 65
        !.source_comments = Int32Value(a.comments),     \* 66
        !.callback = "cb",                              \* 68
        !.work_cb = "WorkOnContext", !.after_work_cb = "MakeOldCallback"]

\* the heap as OldRender leaves it before uv_queue_work
OldRenderHeap(a) ==
    LET m1 == New(New(EmptyHeap, "ctx", ""), "ctxw", "")
        m2 == New(New(m1, "astr", a.src), "bstr", a.inc)
        m3 == New(m2, "input", m2["astr"].val)
        m4 == New(New(m3, "incbuf", ""), "imgbuf", "")
    IN  New(m4, "cb", "")

OldRender(r, a, status) ==
    /\ MayCall(r)
    /\ QueueWork(r, a, OldRenderContext(a), OldRenderHeap(a), status)

\* the context as Render leaves it at line 129
RenderContext(a) ==
    [NewContext("render") EXCEPT
        !.input = "input",                              \* 117-119
        !.include_paths = "bstr",                       \* 120, overwritten at 121
        !.image_path = "imgbuf",                        \* 123
        !.output_style = Int32Value(a.style),           \* 124
        !.source_comments = Int32Value(a.comments),     \* 125
        !.callback = "cb", !.errorCallback = "ecb",     \* 127-128
        !.work_cb = "WorkOnContext", !.after_work_cb = "MakeCallback"]

RenderHeap(a) ==
    LET m1 == New(New(EmptyHeap, "ctx", ""), "ctxw", "")
        m2 == New(New(m1, "astr", a.src), "bstr", a.inc)
        m3 == New(m2, "input", m2["astr"].val)
        m4 == New(New(m3, "incbuf", ""), "imgbuf", "")
    IN  New(New(m4, "cb", ""), "ecb", "")

Render(r, a, status) ==
    /\ MayCall(r)
    /\ QueueWork(r, a, RenderContext(a), RenderHeap(a), status)

\* the context as RenderFile leaves it at line 251
RenderFileContext(a) ==
    [NewContext("renderFile") EXCEPT
        !.input = "input",                              \* 235-237
        !.include_paths = "bstr",                       \* 238, overwritten at 239
        !.output_style = Int32Value(a.style),           \* 241
        !.image_path = "imgbuf",                        \* 242
        !.source_comments = Int32Value(a.comments),     \* 243
        !.source_map_file =                             \* 244-247
            IF Int32Value(a.comments) = SASS_SOURCE_COMMENTS_MAP THEN "mapbuf" ELSE NULL,
        !.callback = "cb", !.errorCallback = "ecb",     \* 249-250
        !.work_cb = "WorkOnFileContext", !.after_work_cb = "MakeFileCallback"]

RenderFileHeap(a) ==
    LET m1 == New(New(EmptyHeap, "ctx", ""), "ctxw", "")
        m2 == New(New(New(m1, "astr", a.src), "bstr", a.inc), "cstr", a.map)
        m3 == New(m2, "input", m2["astr"].val)
        m4 == New(New(m3, "incbuf", ""), "imgbuf", "")
        m5 == IF Int32Value(a.comments) = SASS_SOURCE_COMMENTS_MAP
              THEN New(m4, "mapbuf", m4["cstr"].val) ELSE m4
    IN  New(New(m5, "cb", ""), "ecb", "")

RenderFile(r, a, status) ==
    /\ MayCall(r)
    /\ QueueWork(r, a, RenderFileContext(a), RenderFileHeap(a), status)

\* ------------------------------------------------------------ the worker pool
\* a pool thread takes the oldest queued request and enters its work_cb (the
\* idle threads are interchangeable: the lowest-numbered one takes it)
WorkBegin(w) ==
    /\ proc = "running"
    /\ worker[w] = 0
    /\ \A v \in Workers : v < w => worker[v] # 0
    /\ queue # <<>>
    /\ LET r == Head(queue)
       IN  /\ worker' = [worker EXCEPT ![w] = r]
           /\ queue' = Tail(queue)
           /\ pc' = [pc EXCEPT ![r] = "compiling"]
           /\ trace' = [trace EXCEPT ![r] = Append(@, Ev("work_begin", PoolThread(w)))]
    /\ UNCHANGED <<proc, args, ctx, mem, done, origin, calls, ret>>

\* sass_compile(ctx) / sass_compile_file(ctx) with what the engine reads through
\* the context's pointers (inc is the include path string it found)
SassCompile(m, c, inc) ==
    LET res == Compile(c.kind \in {"renderFile", "renderFileSync"},
                       CHOOSE v \in Deref(m, c.input) : TRUE, inc,
                       c.output_style, c.source_comments,
                       CHOOSE v \in Deref(m, c.source_map_file) : TRUE)
    IN  [c EXCEPT !.error_status = res.error_status,
                  !.output_string = res.output_string,
                  !.source_map_string = res.source_map_string,
                  !.error_message = res.error_message]

\* variant: the work callback itself invokes the success callback, on the pool thread
WorkOnContextCallsBack(w) ==
    /\ proc = "running"
    /\ worker[w] # 0
    /\ LET r == worker[w]
       IN  /\ \E inc \in Deref(mem[r], ctx[r].include_paths) :
                 ctx' = [ctx EXCEPT ![r] = SassCompile(mem[r], ctx[r], inc)]
           /\ worker' = [worker EXCEPT ![w] = 0]
           /\ pc' = [pc EXCEPT ![r] = "finished"]
           /\ calls' = [calls EXCEPT ![r] =
                           Append(@, [slot |-> "callback", argv |-> <<Null>>])]
           /\ trace' = [trace EXCEPT ![r] = @ \o <<Ev("compile", PoolThread(w)),
                                                     Ev("call", PoolThread(w))>>]
    /\ UNCHANGED <<proc, args, mem, queue, done, origin, ret>>

\* WorkOnContext / WorkOnFileContext: the pool thread runs the engine on the
\* context; when it returns the request joins the loop's list of finished work
WorkOnContext(w) ==
    /\ proc = "running"
    /\ worker[w] # 0
    /\ LET r == worker[w]
       IN  /\ ctx[r].work_cb \in {"WorkOnContext", "WorkOnFileContext"}
           /\ \E inc \in Deref(mem[r], ctx[r].include_paths) :
                 ctx' = [ctx EXCEPT ![r] = SassCompile(mem[r], ctx[r], inc)]
           /\ worker' = [worker EXCEPT ![w] = 0]
           /\ pc' = [pc EXCEPT ![r] = "completed"]
           /\ done' = Append(done, r)
           /\ trace' = [trace EXCEPT ![r] = Append(@, Ev("compile", PoolThread(w)))]
    /\ UNCHANGED <<proc, args, mem, queue, origin, calls, ret>>

\* ------------------------------------------------------------ completion dispatch
\* sass_free_context_wrapper / sass_free_file_context_wrapper: the context with the
\* engine's result strings, both callback handles and the wrapper itself
FreeContextWrapper(m, c) ==
    Delete(Delete(Delete(Delete(m, "ctx"), c.callback), c.errorCallback), "ctxw")

\* variant: the legacy arguments in result-first order
OldCallbackCallSwapped(c) ==
    IF c.error_status = 0
    THEN [slot |-> "callback", argv |-> <<StringNew(c.output_string), Null>>]
    ELSE [slot |-> "callback", argv |-> <<StringNew(c.error_message)>>]

\* the one call MakeOldCallback makes (lines 24-41)
OldCallbackCall(c) ==
    IF c.error_status = 0
    THEN [slot |-> "callback", argv |-> <<Null, StringNew(c.output_string)>>]
    ELSE [slot |-> "callback", argv |-> <<StringNew(c.error_message)>>]

\* variant: the test of error_status inverted
CallbackCallInverted(c) ==
    IF c.error_status # 0
    THEN [slot |-> "callback", argv |-> <<StringNew(c.output_string)>>]
    ELSE [slot |-> "errorCallback", argv |-> <<StringNew(c.error_message)>>]

\* the one call MakeCallback makes (lines 83-99)
CallbackCall(c) ==
    IF c.error_status = 0
    THEN [slot |-> "callback", argv |-> <<StringNew(c.output_string)>>]
    ELSE [slot |-> "errorCallback", argv |-> <<StringNew(c.error_message)>>]

\* variant: the source map string passed whatever the mode
FileCallbackCallAlwaysMap(c) ==
    IF c.error_status = 0
    THEN [slot |-> "callback",
          argv |-> <<StringNew(c.output_string), StringNew(c.source_map_string)>>]
    ELSE [slot |-> "errorCallback", argv |-> <<StringNew(c.error_message)>>]

\* the one call MakeFileCallback makes (lines 192-216)
FileCallbackCall(c) ==
    IF c.error_status = 0
    THEN [slot |-> "callback",
          argv |-> <<StringNew(c.output_string),
                     IF c.source_comments = SASS_SOURCE_COMMENTS_MAP
                     THEN StringNew(c.source_map_string) ELSE Null>>]
    ELSE [slot |-> "errorCallback", argv |-> <<StringNew(c.error_message)>>]

\* lines 45-46, 103-104, 220-221: what the dispatcher releases after the callback
DispatchRelease(m, c) == FreeContextWrapper(Delete(m, c.input), c)

\* variant: the release of lines 103-104 done before the result is read
DispatchAfterRelease(r, call) ==
    /\ calls' = [calls EXCEPT ![r] = Append(@, call)]
    /\ done' = Tail(done)
    /\ pc' = [pc EXCEPT ![r] = "dispatching"]
    /\ origin' = InDispatch(r)
    /\ mem' = [mem EXCEPT ![r] = DispatchRelease(mem[r], ctx[r])]
    /\ trace' = [trace EXCEPT ![r] = @ \o <<Ev("delete_input", Origin),
                    Ev("free_context", Origin), Ev("read_result", Origin),
                    Ev("call", Origin)>>]
    /\ UNCHANGED <<proc, args, ctx, queue, worker, ret>>

\* the first half of the three after_work callbacks: build the arguments from
\* the context and call the callback (lines 24-41, 83-99, 192-216)
Dispatch(r, call) ==
    /\ calls' = [calls EXCEPT ![r] = Append(@, call)]
    /\ done' = Tail(done)
    /\ pc' = [pc EXCEPT ![r] = "dispatching"]
    /\ origin' = InDispatch(r)
    /\ trace' = [trace EXCEPT ![r] = @ \o <<Ev("read_result", Origin), Ev("call", Origin)>>]
    /\ UNCHANGED <<proc, args, ctx, mem, queue, worker, ret>>

\* variant: the dispatcher returns right after FatalException, skipping the release
AfterCallbackReturnsAfterFatal(r) ==
    /\ proc = "running"
    /\ origin = InDispatch(r)
    /\ origin' = OriginIdle
    /\ UNCHANGED <<args, ctx, queue, worker, done, calls, ret, proc>>
    /\ pc' = [pc EXCEPT ![r] = "finished"]
    /\ \/ /\ mem' = [mem EXCEPT ![r] = DispatchRelease(mem[r], ctx[r])]
          /\ trace' = [trace EXCEPT ![r] = @ \o <<Ev("delete_input", Origin),
                          Ev("free_context", Origin)>>]
       \/ /\ mem' = mem
          /\ trace' = [trace EXCEPT ![r] = @ \o <<Ev("caught", Origin),
                          Ev("FatalException", Origin)>>]

\* the second half of the three after_work callbacks, once the callback has come
\* back (lines 42-46, 100-104, 217-221): escalate a caught exception, release.
\* node::FatalException either returns (an uncaughtException handler took the
\* error) or ends the process.
AfterCallback(r) ==
    /\ proc = "running"
    /\ origin = InDispatch(r)
    /\ UNCHANGED <<args, ctx, queue, worker, done, calls, ret>>
    /\ \/ \* the callback returned
          /\ mem' = [mem EXCEPT ![r] = DispatchRelease(mem[r], ctx[r])]
          /\ pc' = [pc EXCEPT ![r] = "finished"]
          /\ proc' = proc
          /\ origin' = OriginIdle
          /\ trace' = [trace EXCEPT ![r] = @ \o <<Ev("delete_input", Origin),
                          Ev("free_context", Origin)>>]
       \/ \* the callback threw and FatalException returns
          /\ mem' = [mem EXCEPT ![r] = DispatchRelease(mem[r], ctx[r])]
          /\ pc' = [pc EXCEPT ![r] = "finished"]
          /\ proc' = proc
          /\ origin' = OriginIdle
          /\ trace' = [trace EXCEPT ![r] = @ \o <<Ev("caught", Origin),
                          Ev("FatalException", Origin), Ev("delete_input", Origin),
                          Ev("free_context", Origin)>>]
       \/ \* the callback threw and FatalException ends the process
          /\ mem' = mem
          /\ pc' = [pc EXCEPT ![r] = "exited"]
          /\ proc' = "exited"
          /\ origin' = origin
          /\ trace' = [trace EXCEPT ![r] = @ \o <<Ev("caught", Origin),
                          Ev("FatalException", Origin)>>]

\* variant: an after_work_cb may start while the origin thread is occupied
MayDispatchWhileBusy(r, cb) ==
    /\ proc = "running"
    /\ done # <<>>
    /\ Head(done) = r
    /\ pc[r] = "completed"
    /\ ctx[r].after_work_cb = cb

\* the loop thread, when it is free, runs the after_work_cb of the request that
\* is first in its list of finished work
MayDispatch(r, cb) ==
    /\ proc = "running"
    /\ origin = OriginIdle
    /\ done # <<>>
    /\ Head(done) = r
    /\ pc[r] = "completed"
    /\ ctx[r].after_work_cb = cb

MakeOldCallback(r) ==
    /\ MayDispatch(r, "MakeOldCallback")
    /\ Dispatch(r, OldCallbackCall(ctx[r]))

MakeCallback(r) ==
    /\ MayDispatch(r, "MakeCallback")
    /\ Dispatch(r, CallbackCall(ctx[r]))

MakeFileCallback(r) ==
    /\ MayDispatch(r, "MakeFileCallback")
    /\ Dispatch(r, FileCallbackCall(ctx[r]))

\* ------------------------------------------------------------ synchronous entry points
\* variant: the failure branch returns undefined without throwing
SyncResultNoThrow(c) ==
    IF c.error_status = 0
    THEN [returned |-> TRUE, value |-> StringNew(c.output_string),
          thrown |-> FALSE, error |-> Undefined]
    ELSE [returned |-> TRUE, value |-> Undefined,
          thrown |-> FALSE, error |-> Undefined]

\* what the caller of a synchronous entry point observes (lines 163-173, 285-295)
SyncResult(c) ==
    IF c.error_status = 0
    THEN [returned |-> TRUE, value |-> StringNew(c.output_string),
          thrown |-> FALSE, error |-> Undefined]
    ELSE [returned |-> FALSE, value |-> Undefined,
          thrown |-> TRUE, error |-> StringNew(c.error_message)]

\* lines 155-161 and 277-283: the three deletes after the inline compile
SyncRelease(m, c) == Delete(Delete(Delete(m, c.input), c.include_paths), c.image_path)

\* sass_free_context / sass_free_file_context: the context and its result strings
FreeContext(m) == Delete(m, "ctx")

\* lines 153-173 and 275-295: compile inline, release, build the result, free the
\* context, return or throw; then the AsciiValue locals go out of scope.  A buffer
\* released twice is undefined behaviour: the allocator may end the process.
SyncBody(r, a, c0, m0) ==
    LET inc == CHOOSE v \in Deref(m0, c0.include_paths) : TRUE
        c1 == SassCompile(m0, c0, inc)
        m1 == SyncRelease(m0, c1)
        c2 == [c1 EXCEPT !.input = NULL, !.include_paths = NULL, !.image_path = NULL]
        m2 == FreeContext(m1)
        m3 == Destruct(Destruct(m2, "bstr"), "astr")
        tr == <<Ev("create", Origin), Ev("compile", Origin), Ev("delete_input", Origin),
                Ev("delete_include_paths", Origin), Ev("delete_image_path", Origin),
                Ev("read_result", Origin), Ev("free_context", Origin)>>
    IN  /\ args' = [args EXCEPT ![r] = a]
        /\ ctx' = [ctx EXCEPT ![r] = c2]
        /\ mem' = [mem EXCEPT ![r] = m3]
        /\ UNCHANGED <<queue, worker, done, origin, calls>>
        /\ \/ /\ pc' = [pc EXCEPT ![r] = "done"]
              /\ proc' = proc
              /\ ret' = [ret EXCEPT ![r] = SyncResult(c2)]
              /\ trace' = [trace EXCEPT ![r] =
                              Append(tr, Ev(IF c2.error_status = 0 THEN "return" ELSE "throw",
                                            Origin))]
           \/ /\ \E b \in Bufs : Frees(m3, b) > 1
              /\ pc' = [pc EXCEPT ![r] = "crashed"]
              /\ proc' = "crashed"
              /\ ret' = ret
              /\ trace' = [trace EXCEPT ![r] = Append(tr, Ev("crash", Origin))]

\* the context as RenderSync leaves it at line 151
RenderSyncContext(a) ==
    [NewContext("renderSync") EXCEPT
        !.input = "input",                              \* 144-146
        !.include_paths = "bstr",                       \* 147, overwritten at 148
        !.output_style = Int32Value(a.style),           \* 149
        !.image_path = "imgbuf",                        \* 150
        !.source_comments = Int32Value(a.comments)]     \* 151

RenderSyncHeap(a) ==
    LET m1 == New(EmptyHeap, "ctx", "")
        m2 == New(New(m1, "astr", a.src), "bstr", a.inc)
        m3 == New(m2, "input", m2["astr"].val)
    IN  New(New(m3, "incbuf", ""), "imgbuf", "")

RenderSync(r, a) ==
    /\ MayCall(r)
    /\ SyncBody(r, a, RenderSyncContext(a), RenderSyncHeap(a))

\* variant: the map path wired as in RenderFile
RenderFileSyncContextWithMap(a) ==
    [NewContext("renderFileSync") EXCEPT
        !.input = "input",
        !.include_paths = "bstr",
        !.image_path = "imgbuf",
        !.output_style = Int32Value(a.style),
        !.source_comments = Int32Value(a.comments),
        !.source_map_file =
            IF Int32Value(a.comments) = SASS_SOURCE_COMMENTS_MAP THEN "mapbuf" ELSE NULL]

\* the context as RenderFileSync leaves it at line 273
RenderFileSyncContext(a) ==
    [NewContext("renderFileSync") EXCEPT
        !.input = "input",                              \* 266-268
        !.include_paths = "bstr",                       \* 269, overwritten at 270
        !.image_path = "imgbuf",                        \* 271
        !.output_style = Int32Value(a.style),           \* 272
        !.source_comments = Int32Value(a.comments)]     \* 273

RenderFileSyncHeap(a) ==
    LET m1 == New(EmptyHeap, "ctx", "")
        m2 == New(New(m1, "astr", a.src), "bstr", a.inc)
        m3 == New(m2, "input", m2["astr"].val)
    IN  New(New(m3, "incbuf", ""), "imgbuf", "")

RenderFileSync(r, a) ==
    /\ MayCall(r)
    /\ SyncBody(r, a, RenderFileSyncContext(a), RenderFileSyncHeap(a))

\* ------------------------------------------------------------ specification
Next ==
    \/ \E r \in Reqs : \E a \in InlineArgs(r), status \in UvStatus : OldRender(r, a, status)
    \/ \E r \in Reqs : \E a \in InlineArgs(r), status \in UvStatus : Render(r, a, status)
    \/ \E r \in Reqs : \E a \in InlineArgs(r) : RenderSync(r, a)
    \/ \E r \in Reqs : \E a \in FileArgs(r), status \in UvStatus : RenderFile(r, a, status)
    \/ \E r \in Reqs : \E a \in FileArgs(r) : RenderFileSync(r, a)
    \/ \E w \in Workers : WorkBegin(w)
    \/ \E w \in Workers : WorkOnContext(w)
    \/ \E r \in Reqs : MakeOldCallback(r)
    \/ \E r \in Reqs : MakeCallback(r)
    \/ \E r \in Reqs : MakeFileCallback(r)
    \/ \E r \in Reqs : EntryReturn(r)
    \/ \E r \in Reqs : AfterCallback(r)

Spec == Init /\ [][Next]_vars

\* uv_queue_work hands the request to the thread pool and the loop: a free pool
\* thread takes queued work, a compile that has begun ends, the loop runs the
\* after-work callback of finished work, and a native method or a callback that
\* is running on the origin thread returns.
Fairness ==
    /\ \A w \in Workers : WF_vars(WorkBegin(w)) /\ WF_vars(WorkOnContext(w))
    /\ \A r \in Reqs :
          /\ WF_vars(EntryReturn(r))
          /\ WF_vars(MakeOldCallback(r)) /\ WF_vars(MakeCallback(r))
          /\ WF_vars(MakeFileCallback(r))
          /\ WF_vars(AfterCallback(r))

FairSpec == Spec /\ Fairness

\* the methods RegisterModule exports
EntryPoints == {"oldRender", "render", "renderSync", "renderFile", "renderFileSync"}

\* The `new char[...]` of an entry point (lines 58, 117, 144, 235, 266) finds no
\* memory: operator new throws std::bad_alloc, no entry point has a handler for
\* it, and the exception leaving the native method terminates the process.
AllocationFails(r, kind) ==
    /\ MayCall(r)
    /\ ctx' = [ctx EXCEPT ![r] = NewContext(kind)]
    /\ trace' = [trace EXCEPT ![r] = <<Ev("create", Origin), Ev("bad_alloc", Origin)>>]
    /\ pc' = [pc EXCEPT ![r] = "crashed"]
    /\ proc' = "crashed"
    /\ UNCHANGED <<args, mem, queue, worker, done, origin, calls, ret>>

\* one request at a time over a wide range of option values: every style and
\* comment mode of the enums, and integers on both sides of them
WideStyles == {-1, 0, 3, 4}
WideComments == {-1, 0, 1, 2, 3}
WideArgs ==
    {MkArgs(src, IncludePath(1), st, c, map) :
        src \in {GoodSource(1)} \cup BadSources, st \in WideStyles,
        c \in WideComments, map \in MapPaths}

NextWide ==
    \/ \E a \in WideArgs, status \in UvStatus : OldRender(1, a, status)
    \/ \E a \in WideArgs, status \in UvStatus : Render(1, a, status)
    \/ \E a \in WideArgs : RenderSync(1, a)
    \/ \E a \in WideArgs, status \in UvStatus : RenderFile(1, a, status)
    \/ \E a \in WideArgs : RenderFileSync(1, a)
    \/ \E w \in Workers : WorkBegin(w)
    \/ \E w \in Workers : WorkOnContext(w)
    \/ MakeOldCallback(1)
    \/ MakeCallback(1)
    \/ MakeFileCallback(1)
    \/ EntryReturn(1)
    \/ AfterCallback(1)
    \/ \E kind \in EntryPoints : AllocationFails(1, kind)

SpecWide == Init /\ [][NextWide]_vars

\* ------------------------------------------------------------ properties
AsyncKinds == {"oldRender", "render", "renderFile"}
ModernKinds == {"render", "renderFile"}
SyncKinds == {"renderSync", "renderFileSync"}
FileKinds == {"renderFile", "renderFileSync"}

IsAsync(r) == ctx[r].kind \in AsyncKinds
IsSync(r) == ctx[r].kind \in SyncKinds

\* the dispatcher of r has been entered (and left, or the process ended in it)
Dispatched(r) == pc[r] \in {"dispatching", "finished", "exited"}

\* the engine's verdict on the request's own source
Success(r) == args[r].src \in GoodSources

Has(r, e) == \E i \in 1..Len(trace[r]) : trace[r][i].ev = e
Pos(r, e) == CHOOSE i \in 1..Len(trace[r]) : trace[r][i].ev = e
DispatchEvents == {"read_result", "call", "caught", "FatalException",
                   "delete_input", "free_context"}

\* C1: every asynchronous request whose compile has an outcome gets exactly one
\* callback invocation, made by its dispatcher: modern convention, the success
\* callback iff the compile succeeded and the error callback iff it failed;
\* legacy convention, the single callback.  No request ever gets a second call.
C1_ExactlyOneCallback ==
    \A r \in Reqs :
        /\ Len(calls[r]) <= 1
        /\ Len(calls[r]) = 1 <=> (IsAsync(r) /\ Dispatched(r))
        /\ (IsAsync(r) /\ Dispatched(r)) =>
              /\ ctx[r].kind \in ModernKinds =>
                    /\ calls[r][1].slot = "callback" <=> Success(r)
                    /\ calls[r][1].slot = "errorCallback" <=> ~Success(r)
              /\ ctx[r].kind = "oldRender" => calls[r][1].slot = "callback"

C1_Witness ==
    \E r, q \in Reqs :
        /\ ctx[r].kind = "render" /\ pc[r] = "finished" /\ ~Success(r)
        /\ calls[r][1].slot = "errorCallback"
        /\ ctx[q].kind = "renderFile" /\ pc[q] = "finished" /\ Success(q)
        /\ calls[q][1].slot = "callback"

\* C2: once the dispatcher of an asynchronous request has finished, every buffer
\* the entry point allocated for the request has been released exactly once.
C2_AsyncBuffersReleasedOnce ==
    \A r \in Reqs :
        (IsAsync(r) /\ pc[r] = "finished") =>
            \A b \in OwnedBufs : mem[r][b].alloc = 1 => Frees(mem[r], b) = 1

\* C3: when a synchronous call has returned or raised, every buffer the request
\* owns has been released exactly once by the call, and the call has released no
\* buffer the request does not own.
C3_SyncBuffersReleasedOnce ==
    \A r \in Reqs :
        (IsSync(r) /\ pc[r] = "done") =>
            /\ \A b \in OwnedBufs : mem[r][b].alloc = 1 => mem[r][b].rel = 1
            /\ \A b \in CallerBufs : mem[r][b].rel = 0

\* what the dispatcher releases on the path where the callback returns normally
ReleasedByDispatcher(r) ==
    /\ mem[r]["input"].rel = 1
    /\ mem[r]["ctx"].rel = 1
    /\ mem[r]["ctxw"].rel = 1
    /\ mem[r]["cb"].rel = 1
    /\ ctx[r].kind \in ModernKinds => mem[r]["ecb"].rel = 1

PointerFields == {"input", "include_paths", "image_path", "source_map_file"}
C5_NoCallerAlias ==
    \A r \in Reqs :
        pc[r] \in {"queued", "compiling", "completed"} =>
            \A f \in PointerFields :
                ctx[r][f] # NULL => (ctx[r][f] \in OwnedBufs /\ Live(mem[r], ctx[r][f]))

\* what the engine yields for the arguments request r was called with
ExpectedResult(r) ==
    Compile(ctx[r].kind \in FileKinds, args[r].src, args[r].inc,
            args[r].style, args[r].comments,
            IF ctx[r].kind = "renderFile" /\ args[r].comments = SASS_SOURCE_COMMENTS_MAP
            THEN args[r].map ELSE NULL)

\* C6: a synchronous call that completes either returns the output text or raises
\* the engine's error message, never both and never neither: it returns iff the
\* compile succeeded and raises iff it failed.
C6_SyncReturnsOrRaises ==
    \A r \in Reqs :
        (IsSync(r) /\ pc[r] = "done") =>
            /\ ret[r].returned <=> Success(r)
            /\ ret[r].thrown <=> ~Success(r)
            /\ ret[r].returned # ret[r].thrown
            /\ ret[r].returned => ret[r].value = StringNew(ExpectedResult(r).output_string)
            /\ ret[r].thrown => ret[r].error = StringNew(ExpectedResult(r).error_message)

C6_Witness ==
    \E r, q \in Reqs :
        /\ ctx[r].kind = "renderSync" /\ pc[r] = "done" /\ ret[r].thrown
        /\ ctx[q].kind = "renderFileSync" /\ pc[q] = "done" /\ ret[q].returned

\* C7: for every asynchronous request the compile runs on a pool thread, and
\* every step of the dispatcher (reading the result, the callback, the release)
\* runs on the origin thread and after the compile has finished.
C7_DispatchAfterCompileOnOrigin ==
    \A r \in Reqs :
        IsAsync(r) =>
            /\ \A i \in 1..Len(trace[r]) :
                  /\ trace[r][i].ev = "compile" => trace[r][i].th \in {PoolThread(w) : w \in Workers}
                  /\ trace[r][i].ev \in DispatchEvents =>
                        /\ trace[r][i].th = Origin
                        /\ Has(r, "compile")
                        /\ Pos(r, "compile") < i
            /\ Len(calls[r]) > 0 => (Has(r, "compile") /\ pc[r] \notin {"queued", "compiling"})
            /\ pc[r] = "compiling" <=> (\E w \in Workers : worker[w] = r)

C7_Witness ==
    \E r, q \in Reqs :
        /\ r # q
        /\ IsAsync(r) /\ pc[r] = "finished" /\ Has(r, "compile")
        /\ IsAsync(q) /\ pc[q] = "compiling"

\* C8: each asynchronous request that has been dispatched got exactly one
\* callback, and its payload is what the engine yields for that request's own
\* input (source, include path, options).
C8_OwnPayload ==
    \A r \in Reqs :
        (IsAsync(r) /\ Dispatched(r)) =>
            /\ Len(calls[r]) = 1
            /\ Success(r) =>
                  \E i \in 1..Len(calls[r][1].argv) :
                      calls[r][1].argv[i] = StringNew(ExpectedResult(r).output_string)
            /\ ~Success(r) =>
                  calls[r][1].argv[1] = StringNew(ExpectedResult(r).error_message)

\* C9 as stated: the legacy callback always gets two arguments, (null, output)
\* on success and (message, null) on failure.
C9_LegacyTwoArguments ==
    \A r \in Reqs :
        (ctx[r].kind = "oldRender" /\ Dispatched(r)) =>
            /\ Len(calls[r][1].argv) = 2
            /\ Success(r) =>
                  calls[r][1].argv = <<Null, StringNew(ctx[r].output_string)>>
            /\ ~Success(r) =>
                  calls[r][1].argv = <<StringNew(ctx[r].error_message), Null>>

\* C9 amended: the legacy callback gets (null, output) on success; on failure it
\* gets the error message as its only argument, and no result argument is passed.
C9_LegacyArguments ==
    \A r \in Reqs :
        (ctx[r].kind = "oldRender" /\ Dispatched(r)) =>
            /\ calls[r][1].slot = "callback"
            /\ Success(r) =>
                  /\ ctx[r].output_string.k = "css"
                  /\ calls[r][1].argv = <<Null, StringNew(ctx[r].output_string)>>
            /\ ~Success(r) =>
                  calls[r][1].argv = <<StringNew(ExpectedResult(r).error_message)>>

C9_Witness ==
    \E r, q \in Reqs :
        /\ ctx[r].kind = "oldRender" /\ pc[r] = "finished" /\ ~Success(r)
        /\ ctx[q].kind = "oldRender" /\ pc[q] = "finished" /\ Success(q)

\* C10: when uv_queue_work reports a failure, the process keeps running and the
\* caller is told at once: the entry point raises, or the error callback is invoked.
C10_SubmitFailureSurfaced ==
    \A r \in Reqs :
        (IsAsync(r) /\ ctx[r].status # 0) =>
            /\ proc # "aborted"
            /\ \/ ret[r].thrown
               \/ Len(calls[r]) = 1

\* what the synchronous variant of the same source kind yields for arguments a
SyncVariantResult(kind, a) ==
    LET c0 == IF kind \in FileKinds THEN RenderFileSyncContext(a) ELSE RenderSyncContext(a)
        m0 == IF kind \in FileKinds THEN RenderFileSyncHeap(a) ELSE RenderSyncHeap(a)
        inc == CHOOSE v \in Deref(m0, c0.include_paths) : TRUE
    IN  SyncResult(SassCompile(m0, c0, inc))

\* C11: what render / renderFile delivers to its callback is what renderSync /
\* renderFileSync returns or raises for the same input and options.
C11_AsyncEqualsSync ==
    \A r \in Reqs :
        (ctx[r].kind \in ModernKinds /\ Dispatched(r)) =>
            LET s == SyncVariantResult(ctx[r].kind, args[r])
            IN  /\ s.returned =>
                      /\ calls[r][1].slot = "callback"
                      /\ calls[r][1].argv[1] = s.value
                /\ s.thrown =>
                      /\ calls[r][1].slot = "errorCallback"
                      /\ calls[r][1].argv[1] = s.error

\* C12: the success callback of renderFile gets the source map text as its second
\* argument iff the comment mode is Map; for every other mode it gets null there.
C12_MapIffMapMode ==
    \A r \in Reqs :
        (ctx[r].kind = "renderFile" /\ Dispatched(r) /\ Success(r)) =>
            /\ Len(calls[r][1].argv) = 2
            /\ args[r].comments = SASS_SOURCE_COMMENTS_MAP =>
                  calls[r][1].argv[2] =
                      StringNew([k |-> "map", src |-> args[r].src, file |-> args[r].map])
            /\ args[r].comments # SASS_SOURCE_COMMENTS_MAP => calls[r][1].argv[2] = Null

C12_Witness ==
    \E r \in Reqs :
        /\ ctx[r].kind = "renderFile" /\ pc[r] = "finished" /\ Success(r)
        /\ args[r].comments = SASS_SOURCE_COMMENTS_MAP
        /\ calls[r][1].argv[2].t = "string"

\* C13: the options an entry point hands to the engine hold an output style in
\* 0..3 and a comment mode in 0..2, whatever integers the caller supplied.
C13_OptionsInRange ==
    \A r \in Reqs :
        Submitted(r) =>
            /\ ctx[r].output_style \in 0..3
            /\ ctx[r].source_comments \in 0..2

\* C14: when an allocation of an entry point fails, the failure comes back to the
\* caller as an error (raised, or given to a callback) and the process lives on.
C14_AllocationFailureSurfaced ==
    \A r \in Reqs :
        Has(r, "bad_alloc") =>
            /\ proc = "running"
            /\ ret[r].thrown \/ Len(calls[r]) = 1

\* C15: renderFileSync never yields a source map: the engine is handed no map file
\* path, no map text is produced, and the caller gets only the CSS text (or the
\* error), even when the comment mode is Map.
C15_FileSyncNoSourceMap ==
    \A r \in Reqs :
        (ctx[r].kind = "renderFileSync" /\ pc[r] = "done") =>
            /\ ctx[r].source_map_file = NULL
            /\ ctx[r].source_map_string = [k |-> "none"]
            /\ mem[r]["mapbuf"].alloc = 0
            /\ ret[r].returned =>
                  /\ ret[r].value.t = "string"
                  /\ ret[r].value.v.k = "css"
            /\ ret[r].thrown => ret[r].error.v.k = "error"

C15_Witness ==
    \E r \in Reqs :
        /\ ctx[r].kind = "renderFileSync" /\ pc[r] = "done"
        /\ args[r].comments = SASS_SOURCE_COMMENTS_MAP
        /\ args[r].map \in MapPaths
        /\ ret[r].returned

Range(f) == {f[i] : i \in DOMAIN f}

\* the place of a request in the lifecycle Created (the entry point at work, no
\* state of its own), Scheduled, Compiling, Completed, Dispatched, Released
Lifecycle == <<"queued", "compiling", "completed", "dispatching", "finished">>
Stage(p) == CHOOSE i \in 1..Len(Lifecycle) : Lifecycle[i] = p

\* C16: a submitted asynchronous request moves through Scheduled, Compiling,
\* Completed, Dispatched, Released one stage at a time, never back; no step leaves
\* Released; and under fair scheduling of pool and loop it reaches Released.
C16_LifecycleOrderAndProgress ==
    /\ [][\A r \in Reqs :
            (pc[r] \in Range(Lifecycle) /\ pc'[r] # pc[r]) =>
                /\ pc[r] # "finished"
                /\ pc'[r] \in Range(Lifecycle) => Stage(pc'[r]) = Stage(pc[r]) + 1]_vars
    /\ \A r \in Reqs : (pc[r] = "queued") ~> (pc[r] = "finished")

\* C17: while a request is scheduled or compiling, no step changes a buffer that a
\* pointer field of its context leads to: the worker only reads them, and the
\* origin thread neither writes nor frees them.
C17_NoOriginAccessDuringCompile ==
    [][\A r \in Reqs :
          (IsAsync(r) /\ pc[r] \in {"queued", "compiling"}) =>
              \A f \in PointerFields :
                  ctx[r][f] # NULL => mem'[r][ctx[r][f]] = mem[r][ctx[r][f]]]_vars

\* C18: at most one completion dispatcher is in progress at any time, it holds the
\* origin thread from its first step to its release, and no entry point runs
\* inside it.
C18_DispatchersSerialized ==
    \A r \in Reqs :
        pc[r] = "dispatching" =>
            /\ origin = InDispatch(r)
            /\ \A q \in Reqs \ {r} : pc[q] # "dispatching"

C18_Witness ==
    \E r, q \in Reqs :
        /\ r # q
        /\ pc[r] = "dispatching"
        /\ pc[q] = "completed"
        /\ done = <<q>>

\* the one call of r is the one its dispatcher builds from the engine's result
\* for the request's own input
OwnCallOnce(r) ==
    /\ Len(calls[r]) = 1
    /\ LET e == ExpectedResult(r)
           c == [ctx[r] EXCEPT !.error_status = e.error_status,
                               !.output_string = e.output_string,
                               !.source_map_string = e.source_map_string,
                               !.error_message = e.error_message]
       IN  calls[r][1] = CASE ctx[r].kind = "oldRender" -> OldCallbackCall(c)
                           [] ctx[r].kind = "render" -> CallbackCall(c)
                           [] OTHER -> FileCallbackCall(c)

C20_NoReadAfterDestroy ==
    \A r \in Reqs :
        \A i \in 1..Len(trace[r]) :
            trace[r][i].ev = "free_context" =>
                /\ \E j \in 1..(i - 1) : trace[r][j].ev = "read_result"
                /\ \E j \in 1..(i - 1) : trace[r][j].ev = "delete_input"
                /\ \A j \in (i + 1)..Len(trace[r]) :
                      trace[r][j].ev \in {"return", "throw", "crash"}

C20_Witness ==
    \E r, q \in Reqs :
        /\ ctx[r].kind = "oldRender" /\ pc[r] = "finished" /\ Has(r, "caught")
        /\ Has(r, "free_context")
        /\ ctx[q].kind = "renderSync" /\ pc[q] = "done" /\ ret[q].thrown
        /\ Has(q, "free_context")

====
